---- MODULE Spec2Model ----
(***************************************************************************)
(* A model of ytt (github.com/deepakjois/ytt): the video-ID resolver, the  *)
(* caption-list extractor, the transcript catalog builder, the track       *)
(* selector, the transcript decoder and the command that chains them.      *)
(*                                                                         *)
(* Strings that the code inspects character by character are sequences of  *)
(* one-character strings.  The watch page is a sequence of lexemes (JSON   *)
(* punctuation, quoted strings, numbers, other text), so that the marker   *)
(* search, the newline removal and the JSON decoding are computed.         *)
(***************************************************************************)
EXTENDS Integers, Sequences, FiniteSets, TLC

VARIABLES
    pc,              \* position of the caller (main) or of the call under check
    arg0,            \* flag.Arg(0): the raw URL / ID string
    lang,            \* the language codes FindTranscript is called with
    videoID,         \* the resolved video ID
    html,            \* body of the watch page
    captionsJSON,    \* result of extractCaptionsJSON
    transcriptList,  \* result of buildTranscriptList
    transcript,      \* the selected *Transcript
    xmlData,         \* body of the timed-text document
    entries,         \* result of parseTranscript
    err,             \* the error the last stage returned
    log,             \* the stages run so far, in order
    corruptIdx,      \* index of the track entry a corruption replaced
    corruptJSON,     \* captionsJSON with that track entry replaced
    corruptList,     \* what buildTranscriptList returns for corruptJSON
    text,            \* argument of removeHTMLTags
    stripped         \* removeHTMLTags applied once, then twice

vars == <<pc, arg0, lang, videoID, html, captionsJSON, transcriptList,
          transcript, xmlData, entries, err, log, corruptIdx, corruptJSON,
          corruptList, text, stripped>>

\* A variable the specification at hand does not use.
Idle == "idle"

----------------------------------------------------------------------------
(* Errors (api.go 20-27) and the errors of the libraries the code calls.   *)

NoErr == "nil"
ErrInvalidCharactersInVideoID == "invalid characters in video id"
ErrVideoIDMinLength == "the video id must be at least 10 characters long"
ErrTranscriptsDisabled == "transcripts disabled"
ErrTranscriptsUnavailable == "transcripts disabled or video unavailable"
ErrNoTranscriptFound == "no transcript found for the given language codes"
ErrInvalidFormat == "invalid captions tracks format"
\* what json.Unmarshal, xml.Unmarshal and http.Get / io.ReadAll return
JSONError == "json: cannot unmarshal"
XMLError == "xml: cannot unmarshal"
TransportError == "http: transport error"

----------------------------------------------------------------------------
(* strings.Contains, strings.ContainsAny, strings.Split                    *)

\* p occurs in s at index i
HasPrefixAt(s, i, p) ==
    /\ i >= 1
    /\ i + Len(p) - 1 <= Len(s)
    /\ \A k \in 1..Len(p) : s[i + k - 1] = p[k]

\* strings.Contains(s, p)
Contains(s, p) == \E i \in 1..(Len(s) + 1) : HasPrefixAt(s, i, p)

\* strings.ContainsAny(s, chars)
ContainsAny(s, chars) == \E i \in 1..Len(s) : s[i] \in chars

\* index of the first occurrence of p in s at or after i, 0 when there is none
RECURSIVE IndexFrom(_, _, _)
IndexFrom(s, p, i) ==
    IF i + Len(p) - 1 > Len(s) THEN 0
    ELSE IF HasPrefixAt(s, i, p) THEN i
    ELSE IndexFrom(s, p, i + 1)

\* strings.Split(s, sep), sep not empty: the pieces between the
\* non-overlapping occurrences of sep, scanning from the left
RECURSIVE Split(_, _)
Split(s, sep) ==
    LET i == IndexFrom(s, sep, 1) IN
    IF i = 0 THEN <<s>>
    ELSE <<SubSeq(s, 1, i - 1)>> \o Split(SubSeq(s, i + Len(sep), Len(s)), sep)

----------------------------------------------------------------------------
(* ExtractVideoID (api.go 14-49)                                           *)

\* the length of the token each pattern captures: {11}
IDLen == 11
\* len(videoID) < 10
MinIDLen == 10

\* the class [^"&?/=%] of the patterns
ClassChar(c) == c \notin {"\"", "&", "?", "/", "=", "%"}

\* the characters of the first test, "\"?&/<%="
URLChars == {"\"", "?", "&", "/", "<", "%", "="}
\* the characters of the validation, "?&/<%="
ReservedChars == {"?", "&", "/", "<", "%", "="}

Youtu == <<"y", "o", "u", "t", "u">>

\* the patterns tried from the least specific to the most specific
videoRegexpListReversed == <<
    [ alts |-> { <<>> }, sep |-> FALSE ],
    [ alts |-> { <<>> }, sep |-> TRUE ],
    [ alts |-> { <<"v">>, <<"e", "m", "b", "e", "d">>,
                 <<"s", "h", "o", "r", "t", "s">>,
                 <<"w", "a", "t", "c", "h", "?", "v">> },
      sep  |-> TRUE ] >>

\* A pattern: the alternatives of its leading group (the empty sequence
\* when it has none), whether (?:=|/) follows, and the captured class run.
\* No two alternatives of the first pattern can match at the same index
\* (each of v, embed, shorts, watch\?v starts with another letter), so
\* leftmost-first and leftmost agree.
videoRegexpList == <<
    [ alts |-> { <<"v">>, <<"e", "m", "b", "e", "d">>,
                 <<"s", "h", "o", "r", "t", "s">>,
                 <<"w", "a", "t", "c", "h", "?", "v">> },
      sep  |-> TRUE ],
    [ alts |-> { <<>> }, sep |-> TRUE ],
    [ alts |-> { <<>> }, sep |-> FALSE ] >>

\* IDLen class characters start at index i of s
ClassRunAt(s, i) ==
    /\ i + IDLen - 1 <= Len(s)
    /\ \A k \in i..(i + IDLen - 1) : ClassChar(s[k])

\* where the capture group starts when alternative a of re matches at i
GroupStart(re, a, i) == i + Len(a) + (IF re.sep THEN 1 ELSE 0)

\* the indices at which the capture group starts when re matches at index i
CaptureAt(re, s, i) ==
    { GroupStart(re, a, i) :
        a \in { b \in re.alts :
                  /\ HasPrefixAt(s, i, b)
                  /\ re.sep => /\ i + Len(b) <= Len(s)
                               /\ s[i + Len(b)] \in {"=", "/"}
                  /\ ClassRunAt(s, GroupStart(re, b, i)) } }

\* the leftmost index at or after i at which re matches, 0 when none does
RECURSIVE MatchFrom(_, _, _)
MatchFrom(re, s, i) ==
    IF i > Len(s) THEN 0
    ELSE IF CaptureAt(re, s, i) # {} THEN i
    ELSE MatchFrom(re, s, i + 1)

\* re.FindStringSubmatch(s): the leftmost match. matched = FALSE is nil.
FindStringSubmatch(re, s) ==
    LET i == MatchFrom(re, s, 1) IN
    IF i = 0 THEN [matched |-> FALSE, group |-> <<>>]
    ELSE LET j == CHOOSE x \in CaptureAt(re, s, i) : TRUE
         IN [matched |-> TRUE, group |-> SubSeq(s, j, j + IDLen - 1)]

\* the loop of lines 32-37: the first pattern of the list that matches wins
RECURSIVE FirstMatch(_, _)
FirstMatch(s, k) ==
    IF k > Len(videoRegexpList) THEN s
    ELSE LET m == FindStringSubmatch(videoRegexpList[k], s) IN
         IF m.matched THEN m.group ELSE FirstMatch(s, k + 1)

\* the patterns applied to every input, without the test of line 31
CandidateAlwaysMatched(s) == FirstMatch(s, 1)

\* lines 31-38: the candidate after extraction or pass-through
Candidate(s) ==
    IF Contains(s, Youtu) \/ ContainsAny(s, URLChars)
        THEN FirstMatch(s, 1)
        ELSE s

\* the two checks of lines 40-46 in the other order
ValidateLengthFirst(c) ==
    IF Len(c) < MinIDLen
        THEN [id |-> <<>>, err |-> ErrVideoIDMinLength]
    ELSE IF ContainsAny(c, ReservedChars)
        THEN [id |-> <<>>, err |-> ErrInvalidCharactersInVideoID]
    ELSE [id |-> c, err |-> NoErr]

\* lines 40-48: the validation of the candidate
ValidateVideoID(c) ==
    IF ContainsAny(c, ReservedChars)
        THEN [id |-> <<>>, err |-> ErrInvalidCharactersInVideoID]
    ELSE IF Len(c) < MinIDLen
        THEN [id |-> <<>>, err |-> ErrVideoIDMinLength]
    ELSE [id |-> c, err |-> NoErr]

ExtractVideoID(s) == ValidateVideoID(Candidate(s))

----------------------------------------------------------------------------
(* Inputs of the resolver: concatenations of pieces of URLs and of IDs.    *)

MaxPieces == 4

WatchPrefix == <<"h", "t", "t", "p", "s", ":", "/", "/", "w", "w", "w", ".", "y", "o", "u", "t", "u", "b", "e", ".", "c", "o", "m", "/">>
WatchMarker == <<"w", "a", "t", "c", "h", "?", "v", "=">>
EmbedMarker == <<"e", "m", "b", "e", "d", "/">>
ShortsMarker == <<"s", "h", "o", "r", "t", "s", "/">>
TokenA == <<"d", "Q", "w", "4", "w", "9", "W", "g", "X", "c", "Q">>
TokenB == <<"j", "N", "Q", "X", "A", "C", "9", "I", "V", "R", "w">>
Abc == <<"a", "b", "c">>

URLPieces ==
    { WatchPrefix, WatchMarker, EmbedMarker, ShortsMarker, TokenA, TokenB,
      <<"&">> }

IDPieces ==
    { TokenA, Youtu, Abc, <<"&">>, <<"<">>, <<"\"">>, <<"=">> }

RECURSIVE Concat(_)
Concat(ps) == IF ps = <<>> THEN <<>> ELSE Head(ps) \o Concat(Tail(ps))

Concats(pieces) ==
    { Concat(ps) : ps \in UNION { [1..n -> pieces] : n \in 0..MaxPieces } }

RawInputs == Concats(URLPieces) \cup Concats(IDPieces)

IdleRestOfExtract ==
    /\ lang = Idle /\ html = Idle /\ captionsJSON = Idle
    /\ transcriptList = Idle /\ transcript = Idle /\ xmlData = Idle
    /\ entries = Idle /\ corruptIdx = Idle /\ corruptJSON = Idle
    /\ corruptList = Idle /\ text = Idle /\ stripped = Idle

InitExtract ==
    /\ pc = "ExtractVideoID"
    /\ arg0 \in RawInputs
    /\ videoID = <<>>
    /\ err = NoErr
    /\ log = <<>>
    /\ IdleRestOfExtract

\* videoID, err := ExtractVideoID(flag.Arg(0))
CallExtractVideoID ==
    /\ pc = "ExtractVideoID"
    /\ LET r == ExtractVideoID(arg0) IN
        /\ videoID' = r.id
        /\ err' = r.err
    /\ pc' = "returned"
    /\ log' = Append(log, "ExtractVideoID")
    /\ UNCHANGED <<arg0, lang, html, captionsJSON, transcriptList, transcript,
                   xmlData, entries, corruptIdx, corruptJSON, corruptList,
                   text, stripped>>

SpecExtract == InitExtract /\ [][CallExtractVideoID]_vars

----------------------------------------------------------------------------
(* Claims about ExtractVideoID                                             *)

\* the markers the claim recognizes: v=, /embed/, /shorts/, watch?v=
ClaimMarkers ==
    { <<"v", "=">>, <<"/">> \o EmbedMarker, <<"/">> \o ShortsMarker,
      WatchMarker }

\* an ID token: IDLen characters, none reserved, none a double quote
IsIDToken(t) ==
    /\ Len(t) = IDLen
    /\ \A k \in 1..Len(t) : t[k] \notin ReservedChars \cup {"\""}

\* the places <<i, j>> of s where a claim marker starts at i and an ID token
\* starts at j, directly after the marker
TokenPlaces(s) ==
    { p \in (1..Len(s)) \X (1..Len(s)) :
        \E m \in ClaimMarkers :
            /\ HasPrefixAt(s, p[1], m)
            /\ p[2] = p[1] + Len(m)
            /\ p[2] + IDLen - 1 <= Len(s)
            /\ IsIDToken(SubSeq(s, p[2], p[2] + IDLen - 1)) }

TokenAt(s, j) == SubSeq(s, j, j + IDLen - 1)

\* v, embed or shorts starts at i, then = or /, then IDLen characters none
\* of which is one of " & ? / = %
KeywordOccursAt(s, i) ==
    \E w \in { <<"v">>, <<"e", "m", "b", "e", "d">>,
               <<"s", "h", "o", "r", "t", "s">> } :
        /\ HasPrefixAt(s, i, w)
        /\ i + Len(w) + IDLen <= Len(s)
        /\ s[i + Len(w)] \in {"=", "/"}
        /\ \A k \in 1..IDLen :
              s[i + Len(w) + k] \notin {"\"", "&", "?", "/", "=", "%"}

\* C1 as stated: for every URL that contains an 11-character ID token
\* directly after a recognized marker (v=, /embed/, /shorts/, watch?v=),
\* ExtractVideoID succeeds and returns exactly that token, whatever other
\* text precedes or follows the marker.
C1_AnyMarkerToken ==
    pc = "returned" =>
        \A p \in TokenPlaces(arg0) :
            err = NoErr /\ videoID = TokenAt(arg0, p[2])

\* C1 (amended): when an 11-character ID token directly follows a recognized
\* marker and no occurrence of v, embed or shorts followed by = or / and by
\* 11 characters other than " & ? / = % starts earlier in the URL than the
\* marker, ExtractVideoID succeeds and returns exactly that token.
C1_LeftmostMarkerToken ==
    pc = "returned" =>
        \A p \in TokenPlaces(arg0) :
            (\A i \in 1..(p[1] - 1) : ~KeywordOccursAt(arg0, i))
                => err = NoErr /\ videoID = TokenAt(arg0, p[2])

ScenarioA == WatchPrefix \o WatchMarker \o TokenA

\* scenario A has been resolved to dQw4w9WgXcQ
C1_Witness ==
    /\ pc = "returned"
    /\ arg0 = ScenarioA
    /\ videoID = TokenA
    /\ err = NoErr

HasReserved(s) == \E k \in 1..Len(s) : s[k] \in {"?", "&", "/", "<", "%", "="}

\* C2 as stated: for any input of length 11 or more that contains none of
\* the reserved characters ? & / < % =, ExtractVideoID succeeds and returns
\* the input unchanged.
C2_BareIDUnchanged ==
    (pc = "returned" /\ Len(arg0) >= IDLen /\ ~HasReserved(arg0))
        => err = NoErr /\ videoID = arg0

\* C2 (amended): for any input of length 11 or more that contains none of
\* ? & / < % =, no double quote and not the text youtu, ExtractVideoID
\* succeeds and returns the input unchanged.
C2_PlainIDUnchanged ==
    (/\ pc = "returned"
     /\ Len(arg0) >= IDLen
     /\ ~HasReserved(arg0)
     /\ \A k \in 1..Len(arg0) : arg0[k] # "\""
     /\ \A i \in 1..(Len(arg0) - 4) : SubSeq(arg0, i, i + 4) # Youtu)
        => err = NoErr /\ videoID = arg0

\* a 14-character ID without youtu has been returned as it was given
C2_Witness ==
    /\ pc = "returned"
    /\ arg0 = Abc \o TokenA
    /\ videoID = Abc \o TokenA
    /\ err = NoErr

\* C3 as stated: every candidate shorter than 10 characters fails with
\* ErrVideoIDMinLength and every candidate containing one of ? & / < % =
\* fails with ErrInvalidCharactersInVideoID, the returned ID being empty.
C3_BothChecks ==
    pc = "returned" =>
        /\ Len(Candidate(arg0)) < MinIDLen
              => err = ErrVideoIDMinLength /\ videoID = <<>>
        /\ HasReserved(Candidate(arg0))
              => err = ErrInvalidCharactersInVideoID /\ videoID = <<>>

\* C3 (amended): every candidate containing one of ? & / < % = fails with
\* ErrInvalidCharactersInVideoID, and every candidate shorter than 10
\* characters that contains none of them fails with ErrVideoIDMinLength;
\* in both cases the returned ID is empty.
C3_CharactersBeforeLength ==
    pc = "returned" =>
        /\ HasReserved(Candidate(arg0))
              => err = ErrInvalidCharactersInVideoID /\ videoID = <<>>
        /\ (Len(Candidate(arg0)) < MinIDLen /\ ~HasReserved(Candidate(arg0)))
              => err = ErrVideoIDMinLength /\ videoID = <<>>

\* a short candidate with a reserved character and a short one without
C3_Witness ==
    /\ pc = "returned"
    /\ arg0 \in { Abc \o <<"&">>, Abc }
    /\ arg0 = Abc => err = ErrVideoIDMinLength
    /\ arg0 # Abc => err = ErrInvalidCharactersInVideoID
    /\ videoID = <<>>

----------------------------------------------------------------------------
(* Decoded JSON: what json.Unmarshal stores in an interface{}.             *)

JNull == [t |-> "null", v |-> <<>>]
JStr(x) == [t |-> "string", v |-> x]
JNum(x) == [t |-> "number", v |-> x]
JObj(f) == [t |-> "object", v |-> f]
JArr(q) == [t |-> "array", v |-> q]

\* m[k] for a map[string]interface{}: nil when the key is absent or m is nil
MapGet(m, k) == IF k \in DOMAIN m THEN m[k] ELSE JNull

\* x.(map[string]interface{}) with the ok result dropped: nil when x is none
AsObject(x) == IF x.t = "object" THEN x.v ELSE <<>>

\* x.(string) with the ok result dropped: "" when x is no string
AsString(x) == IF x.t = "string" THEN x.v ELSE ""

\* m[k] = x for a Go map
MapPut(m, k, x) ==
    [c \in DOMAIN m \cup {k} |-> IF c = k THEN x ELSE m[c]]

\* a nil *TranscriptList, *Transcript or map
Nil == [nil |-> TRUE]

----------------------------------------------------------------------------
(* buildTranscriptList (api.go 131-168)                                    *)

\* lines 141-146: the fields read from one entry of captionTracks
TrackCode(captionTrack) ==
    AsString(MapGet(AsObject(captionTrack), "languageCode"))
TrackURL(captionTrack) ==
    AsString(MapGet(AsObject(captionTrack), "baseUrl"))
TrackName(captionTrack) ==
    AsString(MapGet(AsObject(MapGet(AsObject(captionTrack), "name")),
                    "simpleText"))
TrackKind(captionTrack) ==
    AsString(MapGet(AsObject(captionTrack), "kind"))

\* lines 148-154
NewTranscript(vid, captionTrack) ==
    [ VideoID      |-> vid,
      URL          |-> TrackURL(captionTrack),
      Language     |-> TrackName(captionTrack),
      LanguageCode |-> TrackCode(captionTrack),
      IsGenerated  |-> TrackKind(captionTrack) = "asr" ]

\* every track with a kind goes to the generated mapping
AddTrackAnyKind(vid, maps, captionTrack) ==
    LET t == NewTranscript(vid, captionTrack) IN
    IF TrackKind(captionTrack) # ""
        THEN [maps EXCEPT !.generated = MapPut(@, t.LanguageCode, t)]
        ELSE [maps EXCEPT !.manual = MapPut(@, t.LanguageCode, t)]

\* lines 141-160: the body of the loop, on the two maps
AddTrack(vid, maps, captionTrack) ==
    LET t == NewTranscript(vid, captionTrack) IN
    IF TrackKind(captionTrack) = "asr"
        THEN [maps EXCEPT !.generated = MapPut(@, t.LanguageCode, t)]
        ELSE [maps EXCEPT !.manual = MapPut(@, t.LanguageCode, t)]

\* lines 140-161: the loop from entry k on
RECURSIVE AddTracks(_, _, _, _)
AddTracks(vid, maps, captionTracks, k) ==
    IF k > Len(captionTracks) THEN maps
    ELSE AddTracks(vid, AddTrack(vid, maps, captionTracks[k]),
                   captionTracks, k + 1)

\* the loop left at the first entry that is no object with a string
\* languageCode
RECURSIVE AddTracksUntilMalformed(_, _, _, _)
AddTracksUntilMalformed(vid, maps, captionTracks, k) ==
    IF k > Len(captionTracks) THEN maps
    ELSE IF MapGet(AsObject(captionTracks[k]), "languageCode").t # "string"
        THEN maps
    ELSE AddTracksUntilMalformed(vid, AddTrack(vid, maps, captionTracks[k]),
                                 captionTracks, k + 1)

buildTranscriptListUntilMalformed(vid, cj) ==
    LET captionTracks == MapGet(cj, "captionTracks") IN
    IF captionTracks.t # "array"
        THEN [tl |-> Nil, err |-> ErrInvalidFormat]
    ELSE LET maps == AddTracksUntilMalformed(vid,
                        [manual |-> <<>>, generated |-> <<>>],
                        captionTracks.v, 1)
         IN [ tl  |-> [ VideoID |-> vid,
                        ManuallyCreatedTranscripts |-> maps.manual,
                        GeneratedTranscripts |-> maps.generated ],
              err |-> NoErr ]

buildTranscriptList(vid, cj) ==
    LET captionTracks == MapGet(cj, "captionTracks") IN
    IF captionTracks.t # "array"
        THEN [tl |-> Nil, err |-> ErrInvalidFormat]
    ELSE LET maps == AddTracks(vid, [manual |-> <<>>, generated |-> <<>>],
                               captionTracks.v, 1)
         IN [ tl  |-> [ VideoID |-> vid,
                        ManuallyCreatedTranscripts |-> maps.manual,
                        GeneratedTranscripts |-> maps.generated ],
              err |-> NoErr ]

----------------------------------------------------------------------------
(* Inputs of the catalog builder, and the corruption of one track entry.   *)

MaxTracks == 3

NameOf(x) == JObj([k \in {"simpleText"} |-> JStr(x)])

\* {languageCode:"en", kind:"asr", baseUrl:"...", name:{simpleText:"English"}}
TrackEnASR ==
    JObj([k \in {"languageCode", "kind", "baseUrl", "name"} |->
            CASE k = "languageCode" -> JStr("en")
              [] k = "kind" -> JStr("asr")
              [] k = "baseUrl" -> JStr("u-en-asr")
              [] k = "name" -> NameOf("English")])

TrackValues == {
    TrackEnASR,
    \* a human-authored track: no kind
    JObj([k \in {"languageCode", "baseUrl", "name"} |->
            CASE k = "languageCode" -> JStr("en")
              [] k = "baseUrl" -> JStr("u-en")
              [] k = "name" -> NameOf("English")]),
    \* another kind value
    JObj([k \in {"languageCode", "kind", "baseUrl"} |->
            CASE k = "languageCode" -> JStr("fr")
              [] k = "kind" -> JStr("forced")
              [] k = "baseUrl" -> JStr("u-fr")]),
    \* a kind that is no string, a name that is no object
    JObj([k \in {"languageCode", "kind", "baseUrl", "name"} |->
            CASE k = "languageCode" -> JStr("fr")
              [] k = "kind" -> JNum(1)
              [] k = "baseUrl" -> JStr("u-fr-2")
              [] k = "name" -> JStr("French")]),
    \* a language code that is no string
    JObj([k \in {"languageCode", "kind", "baseUrl"} |->
            CASE k = "languageCode" -> JNum(1)
              [] k = "kind" -> JStr("asr")
              [] k = "baseUrl" -> JStr("u-1")]),
    \* no fields at all
    JObj(<<>>),
    \* an entry that is no object
    JNum(7) }

CaptionsWith(x) == [k \in {"captionTracks"} |-> x]

CaptionsInputs ==
    { CaptionsWith(JArr(q)) :
        q \in UNION { [1..n -> TrackValues] : n \in 0..MaxTracks } }
    \cup { <<>>, CaptionsWith(JStr("none")), CaptionsWith(JNull) }

InitBuild ==
    /\ pc = "buildTranscriptList"
    /\ videoID = TokenA
    /\ captionsJSON \in CaptionsInputs
    /\ transcriptList = Nil
    /\ err = NoErr
    /\ log = <<>>
    /\ corruptIdx = 0
    /\ corruptJSON = <<>>
    /\ corruptList = [tl |-> Nil, err |-> NoErr]
    /\ arg0 = Idle /\ lang = Idle /\ html = Idle /\ transcript = Idle
    /\ xmlData = Idle /\ entries = Idle /\ text = Idle /\ stripped = Idle

\* return buildTranscriptList(videoID, captionsJSON)
CallBuildTranscriptList ==
    /\ pc = "buildTranscriptList"
    /\ LET r == buildTranscriptList(videoID, captionsJSON) IN
        /\ transcriptList' = r.tl
        /\ err' = r.err
    /\ pc' = "built"
    /\ log' = Append(log, "buildTranscriptList")
    /\ UNCHANGED <<arg0, lang, videoID, html, captionsJSON, transcript,
                   xmlData, entries, corruptIdx, corruptJSON, corruptList,
                   text, stripped>>

\* one entry of captionTracks is replaced by another value, and the catalog
\* is built again from the result
CorruptTrackAndRebuild ==
    /\ pc = "built"
    /\ err = NoErr
    /\ \E i \in 1..Len(captionsJSON["captionTracks"].v), x \in TrackValues :
        LET cj == CaptionsWith(
                    JArr([captionsJSON["captionTracks"].v EXCEPT ![i] = x]))
        IN /\ corruptIdx' = i
           /\ corruptJSON' = cj
           /\ corruptList' = buildTranscriptList(videoID, cj)
    /\ pc' = "rebuilt"
    /\ log' = Append(log, "buildTranscriptList")
    /\ UNCHANGED <<arg0, lang, videoID, html, captionsJSON, transcriptList,
                   transcript, xmlData, entries, err, text, stripped>>

SpecBuild ==
    InitBuild /\ [][CallBuildTranscriptList \/ CorruptTrackAndRebuild]_vars

----------------------------------------------------------------------------
(* Claims about buildTranscriptList                                        *)

TracksOf(cj) == cj["captionTracks"].v

\* the track's kind marker equals "asr"
KindIsASR(track) ==
    /\ track.t = "object"
    /\ "kind" \in DOMAIN track.v
    /\ track.v["kind"].t = "string"
    /\ track.v["kind"].v = "asr"

\* the mapping of catalog tl a track of that kind belongs to
MappingFor(tl, track) ==
    IF KindIsASR(track) THEN tl.GeneratedTranscripts
    ELSE tl.ManuallyCreatedTranscripts

SameKey(t1, t2) ==
    /\ KindIsASR(t1) = KindIsASR(t2)
    /\ TrackCode(t1) = TrackCode(t2)

\* entry j is the last of the sequence with its language code and class:
\* the catalog holds the descriptor it contributes
LastWriter(tracks, j) ==
    \A k \in (j + 1)..Len(tracks) : ~SameKey(tracks[k], tracks[j])

\* the catalog built from the corrupted sequence holds, for entry j of the
\* original sequence, the descriptor the original catalog holds
KeptInCorruptList(j) ==
    LET track == TracksOf(captionsJSON)[j] IN
    /\ TrackCode(track) \in DOMAIN MappingFor(corruptList.tl, track)
    /\ MappingFor(corruptList.tl, track)[TrackCode(track)]
         = MappingFor(transcriptList, track)[TrackCode(track)]

\* C5 as stated: corrupting the fields of one track entry never drops or
\* changes the descriptor that any other track entry of the same
\* captionTracks sequence contributes to the resulting catalog.
C5_OthersNeverDropped ==
    pc = "rebuilt" =>
        /\ corruptList.err = NoErr
        /\ \A j \in 1..Len(TracksOf(captionsJSON)) :
              (j # corruptIdx /\ LastWriter(TracksOf(captionsJSON), j))
                  => KeptInCorruptList(j)

\* C5 (amended): corrupting one track entry never makes the build fail, and
\* never drops or changes the descriptor that any other track entry
\* contributes to the catalog, unless the corrupted entry comes later in the
\* sequence than that entry and, once corrupted, has the same language code
\* and the same class (generated or human-authored): then the corrupted
\* entry's descriptor replaces it (last writer wins).
C5_OthersKeptUnlessOverwritten ==
    pc = "rebuilt" =>
        /\ corruptList.err = NoErr
        /\ \A j \in 1..Len(TracksOf(captionsJSON)) :
              (/\ j # corruptIdx
               /\ LastWriter(TracksOf(captionsJSON), j)
               /\ ~(/\ corruptIdx > j
                    /\ SameKey(TracksOf(corruptJSON)[corruptIdx],
                               TracksOf(captionsJSON)[j])))
                  => KeptInCorruptList(j)

\* the first of two entries was replaced by a number; the catalog still
\* holds the descriptor of the second
C5_Witness ==
    /\ pc = "rebuilt"
    /\ Len(TracksOf(captionsJSON)) = 2
    /\ corruptIdx = 1
    /\ TracksOf(captionsJSON)[1] = TrackEnASR
    /\ TracksOf(corruptJSON)[1].t = "number"
    /\ TrackCode(TracksOf(captionsJSON)[2]) = "fr"
    /\ "fr" \in DOMAIN corruptList.tl.ManuallyCreatedTranscripts
    /\ corruptList.tl.ManuallyCreatedTranscripts["fr"].URL = "u-fr"

\* C6: every track whose kind marker equals "asr" is placed in the generated
\* mapping and every track with any other kind value, a non-string kind or
\* no kind in the human-authored mapping (so each mapping's keys are the
\* language codes of the tracks of its class); the single track
\* {languageCode:"en", kind:"asr"} yields an empty human-authored mapping
\* and a generated mapping with the one key "en".
C6_KindDecidesMapping ==
    (pc = "built" /\ err = NoErr) =>
        LET tracks == TracksOf(captionsJSON)
            asr == { k \in 1..Len(tracks) : KindIsASR(tracks[k]) }
            other == (1..Len(tracks)) \ asr
        IN /\ DOMAIN transcriptList.GeneratedTranscripts
                = { TrackCode(tracks[k]) : k \in asr }
           /\ DOMAIN transcriptList.ManuallyCreatedTranscripts
                = { TrackCode(tracks[k]) : k \in other }
           /\ \A c \in DOMAIN transcriptList.GeneratedTranscripts :
                transcriptList.GeneratedTranscripts[c].IsGenerated
           /\ \A c \in DOMAIN transcriptList.ManuallyCreatedTranscripts :
                ~transcriptList.ManuallyCreatedTranscripts[c].IsGenerated
           /\ tracks = <<TrackEnASR>> =>
                /\ DOMAIN transcriptList.ManuallyCreatedTranscripts = {}
                /\ DOMAIN transcriptList.GeneratedTranscripts = {"en"}

\* scenario B has been built
C6_Witness ==
    /\ pc = "built"
    /\ err = NoErr
    /\ TracksOf(captionsJSON) = <<TrackEnASR>>
    /\ DOMAIN transcriptList.ManuallyCreatedTranscripts = {}
    /\ DOMAIN transcriptList.GeneratedTranscripts = {"en"}
    /\ transcriptList.GeneratedTranscripts["en"].URL = "u-en-asr"

----------------------------------------------------------------------------
(* TranscriptList.FindTranscript (api.go 209-219)                          *)

\* every code probed in the human-authored mapping, then every code in the
\* generated mapping
RECURSIVE FindInMapping(_, _, _)
FindInMapping(m, languageCodes, k) ==
    IF k > Len(languageCodes) THEN [t |-> Nil, err |-> ErrNoTranscriptFound]
    ELSE IF languageCodes[k] \in DOMAIN m
        THEN [t |-> m[languageCodes[k]], err |-> NoErr]
    ELSE FindInMapping(m, languageCodes, k + 1)

FindTranscriptManualFirst(tl, languageCodes) ==
    LET r == FindInMapping(tl.ManuallyCreatedTranscripts, languageCodes, 1) IN
    IF r.err = NoErr THEN r
    ELSE FindInMapping(tl.GeneratedTranscripts, languageCodes, 1)

\* the loop of lines 210-217 from code k on
RECURSIVE FindFrom(_, _, _)
FindFrom(tl, languageCodes, k) ==
    IF k > Len(languageCodes) THEN [t |-> Nil, err |-> ErrNoTranscriptFound]
    ELSE LET code == languageCodes[k] IN
         IF code \in DOMAIN tl.ManuallyCreatedTranscripts
            THEN [t |-> tl.ManuallyCreatedTranscripts[code], err |-> NoErr]
         ELSE IF code \in DOMAIN tl.GeneratedTranscripts
            THEN [t |-> tl.GeneratedTranscripts[code], err |-> NoErr]
         ELSE FindFrom(tl, languageCodes, k + 1)

FindTranscript(tl, languageCodes) == FindFrom(tl, languageCodes, 1)

----------------------------------------------------------------------------
(* Inputs of the track selector: any catalog over a few language codes     *)
(* and any list of codes.                                                  *)

MaxCodes == 3

Codes == {"en", "fr", "de"}

\* the descriptor buildTranscriptList makes for a track of this code
TranscriptFor(vid, code, generated) ==
    [ VideoID      |-> vid,
      URL          |-> "u",
      Language     |-> code,
      LanguageCode |-> code,
      IsGenerated  |-> generated ]

Catalogs ==
    { [ VideoID |-> TokenA,
        ManuallyCreatedTranscripts |->
            [c \in m |-> TranscriptFor(TokenA, c, FALSE)],
        GeneratedTranscripts |->
            [c \in g |-> TranscriptFor(TokenA, c, TRUE)] ] :
      m \in SUBSET Codes, g \in SUBSET Codes }

CodeLists == UNION { [1..n -> Codes] : n \in 0..MaxCodes }

InitFind ==
    /\ pc = "FindTranscript"
    /\ videoID = TokenA
    /\ transcriptList \in Catalogs
    /\ lang \in CodeLists
    /\ transcript = Nil
    /\ err = NoErr
    /\ log = <<>>
    /\ arg0 = Idle /\ html = Idle /\ captionsJSON = Idle /\ xmlData = Idle
    /\ entries = Idle /\ corruptIdx = Idle /\ corruptJSON = Idle
    /\ corruptList = Idle /\ text = Idle /\ stripped = Idle

\* transcript, err = transcriptList.FindTranscript(lang...)
CallFindTranscript ==
    /\ pc = "FindTranscript"
    /\ LET r == FindTranscript(transcriptList, lang) IN
        /\ transcript' = r.t
        /\ err' = r.err
    /\ pc' = "found"
    /\ log' = Append(log, "FindTranscript")
    /\ UNCHANGED <<arg0, lang, videoID, html, captionsJSON, transcriptList,
                   xmlData, entries, corruptIdx, corruptJSON, corruptList,
                   text, stripped>>

SpecFind == InitFind /\ [][CallFindTranscript]_vars

\* the places of the list whose code is a key of either mapping
Hits(tl, codes) ==
    { k \in 1..Len(codes) :
        codes[k] \in DOMAIN tl.ManuallyCreatedTranscripts
                        \cup DOMAIN tl.GeneratedTranscripts }

\* C4: FindTranscript returns the descriptor of the earliest code in the
\* list that is a key of either mapping, the human-authored descriptor when
\* that code is in both mappings; it fails with ErrNoTranscriptFound exactly
\* when no code of the list is a key of either mapping.
C4_FirstCodeFound ==
    pc = "found" =>
        LET hits == Hits(transcriptList, lang) IN
        IF hits = {}
            THEN err = ErrNoTranscriptFound /\ transcript = Nil
            ELSE LET k == CHOOSE x \in hits : \A y \in hits : x <= y
                     code == lang[k]
                 IN /\ err = NoErr
                    /\ transcript.LanguageCode = code
                    /\ IF code \in DOMAIN transcriptList.ManuallyCreatedTranscripts
                        THEN transcript =
                               transcriptList.ManuallyCreatedTranscripts[code]
                        ELSE transcript =
                               transcriptList.GeneratedTranscripts[code]

\* scenario C: ["fr","en"] against a catalog holding only "en"
C4_Witness ==
    /\ pc = "found"
    /\ lang = <<"fr", "en">>
    /\ DOMAIN transcriptList.ManuallyCreatedTranscripts = {"en"}
    /\ DOMAIN transcriptList.GeneratedTranscripts = {}
    /\ err = NoErr
    /\ transcript.LanguageCode = "en"

----------------------------------------------------------------------------
(* removeHTMLTags (api.go 203-206)                                         *)

\* index of the first c in s at or after i, 0 when there is none
RECURSIVE IndexOfChar(_, _, _)
IndexOfChar(s, c, i) ==
    IF i > Len(s) THEN 0
    ELSE IF s[i] = c THEN i
    ELSE IndexOfChar(s, c, i + 1)

\* the pattern <[^<>]*> instead of <[^>]*>: a run may not hold another <
RECURSIVE RemoveInnermostFrom(_, _)
RemoveInnermostFrom(s, i) ==
    IF i > Len(s) THEN <<>>
    ELSE LET j == IndexOfChar(s, ">", i + 1) IN
         IF /\ s[i] = "<"
            /\ j # 0
            /\ \A k \in (i + 1)..(j - 1) : s[k] # "<"
            THEN RemoveInnermostFrom(s, j + 1)
            ELSE <<s[i]>> \o RemoveInnermostFrom(s, i + 1)

removeInnermostTags(t) == RemoveInnermostFrom(t, 1)

\* re.ReplaceAllString(text, "") for <[^>]*>, from index i on: the leftmost
\* match starts at the first < that has a > after it and ends at the first
\* such >; the scan goes on after the match
RECURSIVE RemoveTagsFrom(_, _)
RemoveTagsFrom(s, i) ==
    IF i > Len(s) THEN <<>>
    ELSE LET j == IndexOfChar(s, ">", i + 1) IN
         IF s[i] = "<" /\ j # 0
            THEN RemoveTagsFrom(s, j + 1)
            ELSE <<s[i]>> \o RemoveTagsFrom(s, i + 1)

removeHTMLTags(t) == RemoveTagsFrom(t, 1)

MaxTextLen == 5

TextChars == {"<", ">", "a"}

Texts == UNION { [1..n -> TextChars] : n \in 0..MaxTextLen }

InitStrip ==
    /\ pc = "removeHTMLTags"
    /\ text \in Texts
    /\ stripped = <<>>
    /\ err = NoErr
    /\ log = <<>>
    /\ arg0 = Idle /\ lang = Idle /\ videoID = Idle /\ html = Idle
    /\ captionsJSON = Idle /\ transcriptList = Idle /\ transcript = Idle
    /\ xmlData = Idle /\ entries = Idle /\ corruptIdx = Idle
    /\ corruptJSON = Idle /\ corruptList = Idle

\* removeHTMLTags called on the text, then on its own result
CallRemoveHTMLTags ==
    /\ pc \in {"removeHTMLTags", "once"}
    /\ stripped' = Append(stripped,
            removeHTMLTags(IF stripped = <<>> THEN text ELSE stripped[1]))
    /\ pc' = IF pc = "removeHTMLTags" THEN "once" ELSE "twice"
    /\ log' = Append(log, "removeHTMLTags")
    /\ UNCHANGED <<arg0, lang, videoID, html, captionsJSON, transcriptList,
                   transcript, xmlData, entries, err, corruptIdx, corruptJSON,
                   corruptList, text>>

SpecStrip == InitStrip /\ [][CallRemoveHTMLTags]_vars

\* C10: removeHTMLTags is idempotent: for every text, also with nested,
\* unbalanced or unterminated angle brackets, the result of removing the
\* tags from the result equals the result.
C10_StripIdempotent ==
    pc = "twice" => stripped[2] = stripped[1]

\* a text with nested brackets and an unterminated one has been stripped
\* twice
C10_Witness ==
    /\ pc = "twice"
    /\ text = <<"<", "<", "a", ">", "<">>
    /\ stripped[1] = <<"<">>
    /\ stripped[2] = <<"<">>

----------------------------------------------------------------------------
(* parseTranscript (api.go 72-76, 186-201)                                 *)
(*                                                                         *)
(* The timed-text document is given as what the XML tokenizer makes of it: *)
(* whether it is well-formed, and the child elements of its root, each     *)
(* with its name, its attributes (a function from the attribute names it   *)
(* has to their values) and its character data, entities decoded.          *)

Digits == {"0", "1", "2", "3", "4", "5", "6", "7", "8", "9"}

DigitValue(c) ==
    CASE c = "0" -> 0 [] c = "1" -> 1 [] c = "2" -> 2 [] c = "3" -> 3
      [] c = "4" -> 4 [] c = "5" -> 5 [] c = "6" -> 6 [] c = "7" -> 7
      [] c = "8" -> 8 [] c = "9" -> 9

\* the number the digits of s spell
RECURSIVE DigitsValue(_)
DigitsValue(s) ==
    IF s = <<>> THEN 0
    ELSE 10 * DigitsValue(SubSeq(s, 1, Len(s) - 1)) + DigitValue(s[Len(s)])

\* a float64 as mant / 10^scale, without trailing zeros after the point
RECURSIVE Normal(_)
Normal(f) ==
    IF f.scale > 0 /\ f.mant % 10 = 0
        THEN Normal([mant |-> f.mant \div 10, scale |-> f.scale - 1])
        ELSE f

Zero == [mant |-> 0, scale |-> 0]

\* strconv.ParseFloat on a decimal literal, digits with at most one point;
\* any other text here is text ParseFloat rejects
ParseFloat(s) ==
    LET points == { i \in 1..Len(s) : s[i] = "." }
        digits == SelectSeq(s, LAMBDA c : c \in Digits)
    IN IF /\ \A i \in 1..Len(s) : s[i] \in Digits \cup {"."}
          /\ Cardinality(points) <= 1
          /\ digits # <<>>
        THEN [ ok  |-> TRUE,
               val |-> Normal([ mant  |-> DigitsValue(digits),
                                scale |-> IF points = {} THEN 0
                                          ELSE Len(s) - (CHOOSE i \in points : TRUE) ]) ]
        ELSE [ok |-> FALSE, val |-> Zero]

\* encoding/xml on a float64 field tagged `xml:"<name>,attr"`: the field is
\* assigned only when the element has the attribute; an empty value sets 0,
\* any other value goes through ParseFloat, whose error fails the decode
DecodeAttr(elem, name) ==
    IF name \notin DOMAIN elem.attrs THEN [ok |-> TRUE, val |-> Zero]
    ELSE IF elem.attrs[name] = <<>> THEN [ok |-> TRUE, val |-> Zero]
    ELSE ParseFloat(elem.attrs[name])

\* lines 72-76: one TranscriptEntry from one <text> element
DecodeEntry(elem) ==
    LET start == DecodeAttr(elem, "start")
        dur == DecodeAttr(elem, "dur")
    IN [ ok    |-> start.ok /\ dur.ok,
         entry |-> [ Text     |-> elem.chardata,
                     Start    |-> start.val,
                     Duration |-> dur.val ] ]

\* xml.Unmarshal into struct{ Entries []TranscriptEntry `xml:"text"` }: the
\* <text> children of the root in document order, other children skipped
XMLUnmarshal(doc) ==
    LET texts == SelectSeq(doc.children, LAMBDA e : e.name = "text")
        decoded == [k \in 1..Len(texts) |-> DecodeEntry(texts[k])]
    IN IF ~doc.wellFormed \/ \E k \in 1..Len(texts) : ~decoded[k].ok
        THEN [entries |-> <<>>, err |-> XMLError]
        ELSE [ entries |-> [k \in 1..Len(texts) |-> decoded[k].entry],
               err |-> NoErr ]

parseTranscript(doc) ==
    LET r == XMLUnmarshal(doc) IN
    IF r.err # NoErr THEN [entries |-> Nil, err |-> r.err]
    ELSE [ entries |-> [k \in 1..Len(r.entries) |->
                          [r.entries[k] EXCEPT !.Text = removeHTMLTags(@)]],
           err |-> NoErr ]

MaxElems == 2

Elem(name, attrs, chardata) ==
    [name |-> name, attrs |-> attrs, chardata |-> chardata]

StartOnly(x) == [k \in {"start"} |-> x]
DurOnly(x) == [k \in {"dur"} |-> x]
StartDur(x, y) == [k \in {"start", "dur"} |-> IF k = "start" THEN x ELSE y]

Hello == <<"H", "i">>
Tagged == <<"a", "<", "b", ">", "c">>

ElemValues == {
    \* <text start="1.0" dur="2.5">Hi</text>
    Elem("text", StartDur(<<"1", ".", "0">>, <<"2", ".", "5">>), Hello),
    \* <text start="12" dur="0.75">a&lt;b&gt;c</text>
    Elem("text", StartDur(<<"1", "2">>, <<"0", ".", "7", "5">>), Tagged),
    \* start is no number
    Elem("text", StartDur(<<"a", "b", "c">>, <<"2", ".", "5">>), Hello),
    \* dur is no number
    Elem("text", StartDur(<<"1", ".", "0">>, <<"1", ".", "2", ".", "3">>), Hello),
    \* no start attribute
    Elem("text", DurOnly(<<"2", ".", "5">>), Hello),
    \* no dur attribute
    Elem("text", StartOnly(<<"1", ".", "0">>), Tagged),
    \* start=""
    Elem("text", StartDur(<<>>, <<"2", ".", "5">>), Hello),
    \* another element
    Elem("head", <<>>, <<>>) }

XMLDocs ==
    { [wellFormed |-> w, children |-> q] :
        w \in BOOLEAN,
        q \in UNION { [1..n -> ElemValues] : n \in 0..MaxElems } }

InitParse ==
    /\ pc = "parseTranscript"
    /\ xmlData \in XMLDocs
    /\ entries = Nil
    /\ err = NoErr
    /\ log = <<>>
    /\ arg0 = Idle /\ lang = Idle /\ videoID = Idle /\ html = Idle
    /\ captionsJSON = Idle /\ transcriptList = Idle /\ transcript = Idle
    /\ corruptIdx = Idle /\ corruptJSON = Idle /\ corruptList = Idle
    /\ text = Idle /\ stripped = Idle

\* return parseTranscript(string(body))
CallParseTranscript ==
    /\ pc = "parseTranscript"
    /\ LET r == parseTranscript(xmlData) IN
        /\ entries' = r.entries
        /\ err' = r.err
    /\ pc' = "parsed"
    /\ log' = Append(log, "parseTranscript")
    /\ UNCHANGED <<arg0, lang, videoID, html, captionsJSON, transcriptList,
                   transcript, xmlData, corruptIdx, corruptJSON, corruptList,
                   text, stripped>>

SpecParse == InitParse /\ [][CallParseTranscript]_vars

\* the attribute is there and spells a decimal number
IsDecimalAttr(elem, name) ==
    /\ name \in DOMAIN elem.attrs
    /\ LET s == elem.attrs[name] IN
        /\ s # <<>>
        /\ \A i \in 1..Len(s) : s[i] \in Digits \cup {"."}
        /\ Cardinality({ i \in 1..Len(s) : s[i] = "." }) <= 1
        /\ \E i \in 1..Len(s) : s[i] \in Digits

TextElems(doc) == SelectSeq(doc.children, LAMBDA e : e.name = "text")

\* C9: decoding is all-or-nothing: if any <text> element has a start or dur
\* attribute that is absent or not a decimal number, the whole decode fails
\* with an error and no entries are returned; otherwise one entry per <text>
\* element is returned in document order.
C9_AllOrNothing ==
    (pc = "parsed" /\ xmlData.wellFormed) =>
        LET texts == TextElems(xmlData) IN
        IF \E k \in 1..Len(texts) :
              ~IsDecimalAttr(texts[k], "start") \/ ~IsDecimalAttr(texts[k], "dur")
            THEN err # NoErr /\ entries = Nil
            ELSE /\ err = NoErr
                 /\ Len(entries) = Len(texts)
                 /\ \A k \in 1..Len(texts) :
                        entries[k].Text = removeHTMLTags(texts[k].chardata)

----------------------------------------------------------------------------
(* The watch page as a sequence of lexemes.  k is the lexeme's kind:       *)
(* "punct" (s is one of { } [ ] : ,), "string" (a quoted string with       *)
(* content s; nl says that a raw newline stands inside the quotes),        *)
(* "number", "null", "space" (s is the white space) and "text" (anything   *)
(* else, such as markup).                                                  *)

Lex(k, x) == [k |-> k, s |-> x, nl |-> FALSE]
P(x) == Lex("punct", x)
S(x) == Lex("string", x)
Newline == Lex("space", "\n")
\* the quoted string x with a raw newline inside
SplitString(x) == [k |-> "string", s |-> x, nl |-> TRUE]

\* `"captions":`
CaptionsMarker == <<S("captions"), P(":")>>
\* `,"videoDetails"`
VideoDetailsMarker == <<P(","), S("videoDetails")>>

\* strings.ReplaceAll(jsonPart, "\n", "")
RemoveNewlines(toks) ==
    LET kept == SelectSeq(toks, LAMBDA x : x # Newline) IN
    [i \in 1..Len(kept) |-> [kept[i] EXCEPT !.nl = FALSE]]

----------------------------------------------------------------------------
(* json.Unmarshal into a map[string]interface{} (api.go 117-121)           *)

BadParse == [ok |-> FALSE, val |-> JNull, next |-> 0]

IsPunct(toks, i, x) == i <= Len(toks) /\ toks[i] = P(x)

RECURSIVE ParseValue(_, _), ParseMembers(_, _, _), ParseElements(_, _, _)

\* the JSON value that starts at lexeme i of toks
ParseValue(toks, i) ==
    IF i > Len(toks) THEN BadParse
    ELSE LET x == toks[i] IN
         CASE x.k = "string" ->
                IF x.nl THEN BadParse
                ELSE [ok |-> TRUE, val |-> JStr(x.s), next |-> i + 1]
           [] x.k = "number" -> [ok |-> TRUE, val |-> JNum(x.s), next |-> i + 1]
           [] x.k = "null" -> [ok |-> TRUE, val |-> JNull, next |-> i + 1]
           [] x = P("{") ->
                IF IsPunct(toks, i + 1, "}")
                    THEN [ok |-> TRUE, val |-> JObj(<<>>), next |-> i + 2]
                    ELSE ParseMembers(toks, i + 1, <<>>)
           [] x = P("[") ->
                IF IsPunct(toks, i + 1, "]")
                    THEN [ok |-> TRUE, val |-> JArr(<<>>), next |-> i + 2]
                    ELSE ParseElements(toks, i + 1, <<>>)
           [] OTHER -> BadParse

\* the members of an object from lexeme i on, m being those read so far; a
\* key given twice keeps its last value
ParseMembers(toks, i, m) ==
    IF ~(i + 1 <= Len(toks) /\ toks[i].k = "string" /\ ~toks[i].nl
         /\ toks[i + 1] = P(":"))
        THEN BadParse
    ELSE LET r == ParseValue(toks, i + 2) IN
         IF ~r.ok THEN BadParse
         ELSE LET m2 == MapPut(m, toks[i].s, r.val) IN
              IF IsPunct(toks, r.next, "}")
                  THEN [ok |-> TRUE, val |-> JObj(m2), next |-> r.next + 1]
              ELSE IF IsPunct(toks, r.next, ",")
                  THEN ParseMembers(toks, r.next + 1, m2)
              ELSE BadParse

\* the elements of an array from lexeme i on, q being those read so far
ParseElements(toks, i, q) ==
    LET r == ParseValue(toks, i) IN
    IF ~r.ok THEN BadParse
    ELSE LET q2 == Append(q, r.val) IN
         IF IsPunct(toks, r.next, "]")
             THEN [ok |-> TRUE, val |-> JArr(q2), next |-> r.next + 1]
         ELSE IF IsPunct(toks, r.next, ",")
             THEN ParseElements(toks, r.next + 1, q2)
         ELSE BadParse

\* json.Unmarshal(data, &result) for a nil map[string]interface{} result:
\* white space between lexemes is skipped; one value must span the data; an
\* object fills the map, null leaves it nil, any other value is an error
JSONUnmarshal(data) ==
    LET toks == SelectSeq(data, LAMBDA x : x.k # "space")
        r == ParseValue(toks, 1)
    IN IF ~r.ok \/ r.next # Len(toks) + 1
          THEN [result |-> <<>>, err |-> JSONError]
       ELSE IF r.val.t = "object" THEN [result |-> r.val.v, err |-> NoErr]
       ELSE IF r.val.t = "null" THEN [result |-> <<>>, err |-> NoErr]
       ELSE [result |-> <<>>, err |-> JSONError]

----------------------------------------------------------------------------
(* extractCaptionsJSON (api.go 108-129)                                    *)

\* lines 109-115: the fragment handed to json.Unmarshal
JSONPart(page) ==
    RemoveNewlines(Split(Split(page, CaptionsMarker)[2], VideoDetailsMarker)[1])

\* a renderer that is absent or no object reported as the marker missing
extractCaptionsJSONConflated(page, vid) ==
    IF Len(Split(page, CaptionsMarker)) <= 1
        THEN [captionsJSON |-> Nil, err |-> ErrTranscriptsUnavailable]
    ELSE LET r == JSONUnmarshal(JSONPart(page)) IN
         IF r.err # NoErr THEN [captionsJSON |-> Nil, err |-> r.err]
         ELSE LET c == MapGet(r.result, "playerCaptionsTracklistRenderer") IN
              IF c.t # "object"
                  THEN [captionsJSON |-> Nil, err |-> ErrTranscriptsUnavailable]
                  ELSE [captionsJSON |-> c.v, err |-> NoErr]

extractCaptionsJSON(page, vid) ==
    IF Len(Split(page, CaptionsMarker)) <= 1
        THEN [captionsJSON |-> Nil, err |-> ErrTranscriptsUnavailable]
    ELSE LET r == JSONUnmarshal(JSONPart(page)) IN
         IF r.err # NoErr THEN [captionsJSON |-> Nil, err |-> r.err]
         ELSE LET c == MapGet(r.result, "playerCaptionsTracklistRenderer") IN
              IF c.t # "object"
                  THEN [captionsJSON |-> Nil, err |-> ErrTranscriptsDisabled]
                  ELSE [captionsJSON |-> c.v, err |-> NoErr]

----------------------------------------------------------------------------
(* Inputs of the extractor: concatenations of pieces of watch pages.       *)

MaxParts == 3

Renderer == S("playerCaptionsTracklistRenderer")

\* {"playerCaptionsTracklistRenderer":{"captionTracks":[]}}
FragmentOK ==
    <<P("{"), Renderer, P(":"), P("{"), S("captionTracks"), P(":"), P("["),
      P("]"), P("}"), P("}")>>

PagePieces == {
    CaptionsMarker,
    VideoDetailsMarker,
    FragmentOK,
    \* {"playerCaptionsTracklistRenderer":"none"}
    <<P("{"), Renderer, P(":"), S("none"), P("}")>>,
    \* {"playerCaptionsTracklistRenderer":{"title":"a<newline>b"}}
    <<P("{"), Renderer, P(":"), P("{"), S("title"), P(":"), SplitString("ab"),
      P("}"), P("}")>>,
    \* {}
    <<P("{"), P("}")>>,
    \* {"playerCaptionsTracklistRenderer":
    <<P("{"), Renderer, P(":")>>,
    <<Lex("null", "null")>>,
    <<S("en")>>,
    <<Newline>>,
    <<Lex("text", "<html>")>> }

Pages ==
    { Concat(ps) : ps \in UNION { [1..n -> PagePieces] : n \in 0..MaxParts } }

InitCaptions ==
    /\ pc = "extractCaptionsJSON"
    /\ videoID = TokenA
    /\ html \in Pages
    /\ captionsJSON = Nil
    /\ err = NoErr
    /\ log = <<>>
    /\ arg0 = Idle /\ lang = Idle /\ transcriptList = Idle
    /\ transcript = Idle /\ xmlData = Idle /\ entries = Idle
    /\ corruptIdx = Idle /\ corruptJSON = Idle /\ corruptList = Idle
    /\ text = Idle /\ stripped = Idle

\* captionsJSON, err := extractCaptionsJSON(html, videoID)
CallExtractCaptionsJSON ==
    /\ pc = "extractCaptionsJSON"
    /\ LET r == extractCaptionsJSON(html, videoID) IN
        /\ captionsJSON' = r.captionsJSON
        /\ err' = r.err
    /\ pc' = "extracted"
    /\ log' = Append(log, "extractCaptionsJSON")
    /\ UNCHANGED <<arg0, lang, videoID, html, transcriptList, transcript,
                   xmlData, entries, corruptIdx, corruptJSON, corruptList,
                   text, stripped>>

SpecCaptions == InitCaptions /\ [][CallExtractCaptionsJSON]_vars

\* the places of the page where the marker `"captions":` stands
MarkerPlaces(page) ==
    { i \in 1..Len(page) : HasPrefixAt(page, i, CaptionsMarker) }

\* the fragment between the markers: from behind the first `"captions":` to
\* the next `"captions":` or `,"videoDetails"`, or to the end of the page,
\* its newlines removed
Fragment(page) ==
    LET first == CHOOSE i \in MarkerPlaces(page) :
                    \A j \in MarkerPlaces(page) : i <= j
        from == first + Len(CaptionsMarker)
        stops == { i \in from..Len(page) :
                     \/ HasPrefixAt(page, i, CaptionsMarker)
                     \/ HasPrefixAt(page, i, VideoDetailsMarker) }
        to == IF stops = {} THEN Len(page)
              ELSE (CHOOSE i \in stops : \A j \in stops : i <= j) - 1
    IN RemoveNewlines(SubSeq(page, from, to))

----------------------------------------------------------------------------
(* main (ytt.go 13-99) with ListTranscripts (api.go 79-91) and             *)
(* Transcript.Fetch (api.go 171-184): one run of the command.  The two     *)
(* http.Get calls answer with a transport error or with a body.            *)

\* the arguments the command is run with
MainArgs == { ScenarioA, TokenA, Abc, Abc \o <<"&">> }

\* -lang as the list FindTranscript gets: <<>> stands for -lang ""
MainLangs == { <<"en">>, <<"fr">>, <<>> }

KeyValue(k, x) == <<S(k), P(":"), S(x)>>

\* "captions":{"playerCaptionsTracklistRenderer":{"captionTracks":[
\*   {"languageCode":"en","kind":"asr","baseUrl":"u-en-asr"},
\*   {"languageCode":"fr","baseUrl":"u-fr"},
\*   {"languageCode":"de"}]}},"videoDetails"
PageWithTracks ==
    <<Lex("text", "<html>")>> \o CaptionsMarker
      \o <<P("{"), Renderer, P(":"), P("{"), S("captionTracks"), P(":"), P("[")>>
      \o <<P("{")>> \o KeyValue("languageCode", "en") \o <<P(",")>>
         \o KeyValue("kind", "asr") \o <<P(",")>>
         \o KeyValue("baseUrl", "u-en-asr") \o <<P("}"), P(","), Newline>>
      \o <<P("{")>> \o KeyValue("languageCode", "fr") \o <<P(",")>>
         \o KeyValue("baseUrl", "u-fr") \o <<P("}"), P(",")>>
      \o <<P("{")>> \o KeyValue("languageCode", "de") \o <<P("}")>>
      \o <<P("]"), P("}"), P("}")>> \o VideoDetailsMarker
      \o <<P(":"), P("{"), P("}"), Lex("text", "</html>")>>

WatchPages == {
    PageWithTracks,
    \* no marker
    <<Lex("text", "<html>"), Lex("text", "</html>")>>,
    \* a fragment that does not decode
    CaptionsMarker \o <<P("{"), Renderer, P(":")>> \o VideoDetailsMarker,
    \* a renderer that is no object
    CaptionsMarker \o <<P("{"), Renderer, P(":"), S("none"), P("}")>>
        \o VideoDetailsMarker,
    \* a renderer without captionTracks
    CaptionsMarker \o <<P("{"), Renderer, P(":"), P("{"), P("}"), P("}")>>
        \o VideoDetailsMarker,
    \* no tracks
    CaptionsMarker \o FragmentOK \o VideoDetailsMarker }

TimedTexts == { d \in XMLDocs : Len(d.children) <= 1 }

Init ==
    /\ pc = "main"
    /\ arg0 \in MainArgs
    /\ lang \in MainLangs
    /\ videoID = <<>>
    /\ html = <<>>
    /\ captionsJSON = Nil
    /\ transcriptList = Nil
    /\ transcript = Nil
    /\ xmlData = Nil
    /\ entries = Nil
    /\ err = NoErr
    /\ log = <<>>
    /\ corruptIdx = Idle /\ corruptJSON = Idle /\ corruptList = Idle
    /\ text = Idle /\ stripped = Idle

MainFrame == <<arg0, lang, corruptIdx, corruptJSON, corruptList, text, stripped>>

\* where main goes after a call that returned e
AfterCall(e, next) == IF e # NoErr THEN "exit1" ELSE next

\* ytt.go 33-37
MainExtractVideoID ==
    /\ pc = "main"
    /\ LET r == ExtractVideoID(arg0) IN
        /\ videoID' = r.id
        /\ err' = r.err
        /\ pc' = AfterCall(r.err, "fetchVideoHTML")
    /\ log' = Append(log, "ExtractVideoID")
    /\ UNCHANGED <<html, captionsJSON, transcriptList, transcript, xmlData,
                   entries>>
    /\ UNCHANGED MainFrame

\* the page fetch tried again after a transport error
MainFetchVideoHTMLRetried ==
    /\ pc = "fetchVideoHTML"
    /\ log' = Append(log, "fetchVideoHTML")
    /\ \/ /\ Len(log) < 3
          /\ html' = <<>>
          /\ err' = NoErr
          /\ pc' = "fetchVideoHTML"
       \/ \E body \in WatchPages :
            /\ html' = body
            /\ err' = NoErr
            /\ pc' = "extractCaptionsJSON"
    /\ UNCHANGED <<videoID, captionsJSON, transcriptList, transcript, xmlData,
                   entries>>
    /\ UNCHANGED MainFrame

\* ytt.go 39, api.go 80-83 and 93-106: fetchVideoHTML
MainFetchVideoHTML ==
    /\ pc = "fetchVideoHTML"
    /\ log' = Append(log, "fetchVideoHTML")
    /\ \/ /\ html' = <<>>
          /\ err' = TransportError
          /\ pc' = "exit1"
       \/ \E body \in WatchPages :
            /\ html' = body
            /\ err' = NoErr
            /\ pc' = "extractCaptionsJSON"
    /\ UNCHANGED <<videoID, captionsJSON, transcriptList, transcript, xmlData,
                   entries>>
    /\ UNCHANGED MainFrame

\* api.go 85-88
MainExtractCaptionsJSON ==
    /\ pc = "extractCaptionsJSON"
    /\ LET r == extractCaptionsJSON(html, videoID) IN
        /\ captionsJSON' = r.captionsJSON
        /\ err' = r.err
        /\ pc' = AfterCall(r.err, "buildTranscriptList")
    /\ log' = Append(log, "extractCaptionsJSON")
    /\ UNCHANGED <<videoID, html, transcriptList, transcript, xmlData, entries>>
    /\ UNCHANGED MainFrame

\* api.go 90, ytt.go 40-43
MainBuildTranscriptList ==
    /\ pc = "buildTranscriptList"
    /\ LET r == buildTranscriptList(videoID, captionsJSON) IN
        /\ transcriptList' = r.tl
        /\ err' = r.err
        /\ pc' = AfterCall(r.err, "select")
    /\ log' = Append(log, "buildTranscriptList")
    /\ UNCHANGED <<videoID, html, captionsJSON, transcript, xmlData, entries>>
    /\ UNCHANGED MainFrame

\* ytt.go 47-52: -lang is not empty
MainFindTranscript ==
    /\ pc = "select"
    /\ lang # <<>>
    /\ LET r == FindTranscript(transcriptList, lang) IN
        /\ transcript' = r.t
        /\ err' = r.err
        /\ pc' = AfterCall(r.err, "Fetch")
    /\ log' = Append(log, "FindTranscript")
    /\ UNCHANGED <<videoID, html, captionsJSON, transcriptList, xmlData,
                   entries>>
    /\ UNCHANGED MainFrame

\* ytt.go 53-69: -lang "": the first transcript the range over the
\* human-authored map yields (any of them), else the first of the generated
\* map, else none
MainFirstAvailable ==
    /\ pc = "select"
    /\ lang = <<>>
    /\ LET manual == transcriptList.ManuallyCreatedTranscripts
           generated == transcriptList.GeneratedTranscripts
       IN IF DOMAIN manual # {}
            THEN \E c \in DOMAIN manual :
                    transcript' = manual[c] /\ pc' = "Fetch"
          ELSE IF DOMAIN generated # {}
            THEN \E c \in DOMAIN generated :
                    transcript' = generated[c] /\ pc' = "Fetch"
          ELSE transcript' = Nil /\ pc' = "exit1"
    /\ UNCHANGED <<videoID, html, captionsJSON, transcriptList, xmlData,
                   entries, err, log>>
    /\ UNCHANGED MainFrame

\* ytt.go 71, api.go 172-181: http.Get(t.URL) and io.ReadAll; a URL without
\* a scheme is a transport error
MainFetch ==
    /\ pc = "Fetch"
    /\ log' = Append(log, "Fetch")
    /\ \/ /\ xmlData' = Nil
          /\ err' = TransportError
          /\ pc' = "exit1"
       \/ /\ transcript.URL # ""
          /\ \E body \in TimedTexts :
                /\ xmlData' = body
                /\ err' = NoErr
                /\ pc' = "parseTranscript"
    /\ UNCHANGED <<videoID, html, captionsJSON, transcriptList, transcript,
                   entries>>
    /\ UNCHANGED MainFrame

\* api.go 183, ytt.go 72-75
MainParseTranscript ==
    /\ pc = "parseTranscript"
    /\ LET r == parseTranscript(xmlData) IN
        /\ entries' = r.entries
        /\ err' = r.err
        /\ pc' = AfterCall(r.err, "print")
    /\ log' = Append(log, "parseTranscript")
    /\ UNCHANGED <<videoID, html, captionsJSON, transcriptList, transcript,
                   xmlData>>
    /\ UNCHANGED MainFrame

\* ytt.go 77-97: the entries are written out
MainPrint ==
    /\ pc = "print"
    /\ pc' = "exit0"
    /\ UNCHANGED <<videoID, html, captionsJSON, transcriptList, transcript,
                   xmlData, entries, err, log>>
    /\ UNCHANGED MainFrame

Next ==
    \/ MainExtractVideoID
    \/ MainFetchVideoHTML
    \/ MainExtractCaptionsJSON
    \/ MainBuildTranscriptList
    \/ MainFindTranscript
    \/ MainFirstAvailable
    \/ MainFetch
    \/ MainParseTranscript
    \/ MainPrint

Spec == Init /\ [][Next]_vars

----------------------------------------------------------------------------
(* Claim about the pipeline                                                *)

StageOrder ==
    <<"ExtractVideoID", "fetchVideoHTML", "extractCaptionsJSON",
      "buildTranscriptList", "FindTranscript", "Fetch", "parseTranscript">>

StageIndex(st) == CHOOSE k \in 1..Len(StageOrder) : StageOrder[k] = st

\* the errors a stage returns
StageErrors(st) ==
    CASE st = "ExtractVideoID" ->
            {ErrInvalidCharactersInVideoID, ErrVideoIDMinLength}
      [] st = "fetchVideoHTML" -> {TransportError}
      [] st = "extractCaptionsJSON" ->
            {ErrTranscriptsUnavailable, JSONError, ErrTranscriptsDisabled}
      [] st = "buildTranscriptList" -> {ErrInvalidFormat}
      [] st = "FindTranscript" -> {ErrNoTranscriptFound}
      [] st = "Fetch" -> {TransportError}
      [] st = "parseTranscript" -> {XMLError}

\* the stages run so far ran in the fixed order, each at most once; the
\* track fetch came after a page fetch that gave a page; a failed stage is
\* the last one run and its error is what the caller holds
PipelineInOrder ==
    /\ \A i, j \in 1..Len(log) :
          i < j => StageIndex(log[i]) < StageIndex(log[j])
    /\ \A j \in 1..Len(log) :
          log[j] = "Fetch" =>
              /\ \E i \in 1..(j - 1) : log[i] = "fetchVideoHTML"
              /\ html \in WatchPages
    /\ err # NoErr =>
          /\ pc = "exit1"
          /\ log # <<>>
          /\ err \in StageErrors(log[Len(log)])

\* C8: in every run the stages run in the fixed order and each at most once:
\* the track fetch never happens before the page fetch has succeeded, no
\* stage is retried, and once a stage fails no later stage runs and the
\* caller receives that stage's error unchanged.
C8_FailFastInOrder ==
    /\ []PipelineInOrder
    /\ [][err # NoErr => (log' = log /\ err' = err)]_vars

\* a run went through every stage and printed the entries
C8_Witness ==
    /\ pc = "exit0"
    /\ log = StageOrder
    /\ err = NoErr
    /\ Len(entries) = 1

\* a run stopped at the first stage that failed
C8_WitnessFailure ==
    /\ pc = "exit1"
    /\ log = SubSeq(StageOrder, 1, 5)
    /\ err = ErrNoTranscriptFound

====
